---- MODULE Spec2Model ----
(***************************************************************************)
(* Truck Loading Dashboard (app.py): the event-to-interval pipeline.       *)
(*                                                                         *)
(* One run of the script is a sequence of sections: load_action (2),       *)
(* pivot (3), durations (4), filters (5), live status counts (6), daily    *)
(* summary (7), trend (9).  Each section is one action; `pc` is the        *)
(* section about to run.                                                   *)
(*                                                                         *)
(* Representation.                                                         *)
(*  - A data frame is a sequence of rows (records), in row order.          *)
(*  - A cell is a set with at most one element: {} is the missing value    *)
(*    (NaN / NaT / None), {v} is the value v.                              *)
(*  - A timestamp is a whole number of seconds since day 0, 00:00:00;      *)
(*    a date is a day number.                                              *)
(*  - A float is an exact fraction [num, den], den > 0.                    *)
(*  - Product and Plate are strings; a Status label is a sequence of       *)
(*    one-character strings, so that strip and lower can act on it.        *)
(***************************************************************************)
EXTENDS Integers, Sequences, FiniteSets, TLC

----------------------------------------------------------------------------
(* Bounds of the explored inputs *)

MaxEvents == 3
MaxLiveEvents == 2
MaxPad == 1

SecondsPerDay == 86400
SecondsPerMinute == 60

----------------------------------------------------------------------------
(* State: the sheet behind CSV_URL, the section about to run, and the      *)
(* script's data frames and widget values.  `label`, `once` and `twice`    *)
(* hold one Status cell and its normalizations.                            *)

VARIABLES pc, sheet, action, first_stage, wide, sel_date, sel_products,
          df_day, latest, status_counts, summary, trend,
          label, once, twice

frames == <<action, first_stage, wide, sel_date, sel_products,
            df_day, latest, status_counts, summary, trend>>
norm == <<label, once, twice>>
vars == <<pc, sheet, frames, norm>>

----------------------------------------------------------------------------
(* Cells *)

NaN == {}
NaT == {}
isna(c) == c = {}
notna(c) == c # {}
Val(c) == CHOOSE v \in c : TRUE

Min(S) == CHOOSE x \in S : \A y \in S : x <= y
Max(S) == CHOOSE x \in S : \A y \in S : x >= y
Range(s) == {s[i] : i \in DOMAIN s}

(* The rows f[1], ..., f[n] as a sequence *)
DataFrame(f) == SubSeq(f, 1, Len(f))

----------------------------------------------------------------------------
(* Strings as character sequences: str.strip, str.lower, ordering *)

UPPERCASE == <<"A","B","C","D","E","F","G","H","I","J","K","L","M",
               "N","O","P","Q","R","S","T","U","V","W","X","Y","Z">>
LOWERCASE == <<"a","b","c","d","e","f","g","h","i","j","k","l","m",
               "n","o","p","q","r","s","t","u","v","w","x","y","z">>
WHITESPACE == {" ", "\t"}

lower_char(c) ==
    IF \E i \in DOMAIN UPPERCASE : UPPERCASE[i] = c
    THEN LOWERCASE[CHOOSE i \in DOMAIN UPPERCASE : UPPERCASE[i] = c]
    ELSE c

upper_char(c) ==
    IF \E i \in DOMAIN LOWERCASE : LOWERCASE[i] = c
    THEN UPPERCASE[CHOOSE i \in DOMAIN LOWERCASE : LOWERCASE[i] = c]
    ELSE c

lower(s) == [i \in DOMAIN s |-> lower_char(s[i])]
upper(s) == [i \in DOMAIN s |-> upper_char(s[i])]

strip(s) ==
    LET keep == {i \in DOMAIN s : s[i] \notin WHITESPACE}
    IN  IF keep = {} THEN <<>> ELSE SubSeq(s, Min(keep), Max(keep))

(* Code point order of the characters the labels use (space < letters,     *)
(* upper case before lower case).                                          *)
CharCode(c) ==
    IF c = "\t" THEN 9
    ELSE IF c = " " THEN 32
    ELSE IF \E i \in DOMAIN UPPERCASE : UPPERCASE[i] = c
         THEN 64 + (CHOOSE i \in DOMAIN UPPERCASE : UPPERCASE[i] = c)
    ELSE IF \E i \in DOMAIN LOWERCASE : LOWERCASE[i] = c
         THEN 96 + (CHOOSE i \in DOMAIN LOWERCASE : LOWERCASE[i] = c)
    ELSE 0

(* Python's str < str: lexicographic by code point, a proper prefix first. *)
StrLess(a, b) ==
    LET n == IF Len(a) < Len(b) THEN Len(a) ELSE Len(b)
        diff == {i \in 1..n : a[i] # b[i]}
    IN  IF diff = {} THEN Len(a) < Len(b)
        ELSE CharCode(a[Min(diff)]) < CharCode(b[Min(diff)])

----------------------------------------------------------------------------
(* Status labels *)

s_waiting          == <<"w","a","i","t","i","n","g">>
s_wait             == <<"w","a","i","t">>
s_start            == <<"s","t","a","r","t">>
s_start_loading    == <<"s","t","a","r","t"," ","l","o","a","d","i","n","g">>
s_loading_start    == <<"l","o","a","d","i","n","g"," ","s","t","a","r","t">>
s_complete         == <<"c","o","m","p","l","e","t","e">>
s_completed        == <<"c","o","m","p","l","e","t","e","d">>
s_complete_loading == <<"c","o","m","p","l","e","t","e"," ","l","o","a","d","i","n","g">>
s_nan              == <<"n","a","n">>

Waiting          == <<"W","a","i","t","i","n","g">>
Start_Loading    == <<"S","t","a","r","t"," ","L","o","a","d","i","n","g">>
Complete_Loading == <<"C","o","m","p","l","e","t","e"," ","L","o","a","d","i","n","g">>

KnownStatuses == <<Waiting, Start_Loading, Complete_Loading>>

status_map ==
    (s_waiting :> Waiting) @@ (s_wait :> Waiting) @@
    (s_start :> Start_Loading) @@ (s_start_loading :> Start_Loading) @@
    (s_loading_start :> Start_Loading) @@
    (s_complete :> Complete_Loading) @@ (s_completed :> Complete_Loading) @@
    (s_complete_loading :> Complete_Loading)

(* Series.astype(str): the missing value becomes the text "nan". *)
astype_str(c) == IF isna(c) THEN s_nan ELSE Val(c)

(* Series.map(dict): a key that is not in the dict maps to NaN. *)
map_status(s) == IF s \in DOMAIN status_map THEN {status_map[s]} ELSE NaN

fillna(c, other) == IF isna(c) THEN other ELSE c

(* The normalization without str.strip() *)
normalize_status_unstripped(c) == fillna(map_status(lower(astype_str(c))), c)

(* df["Status"].astype(str).str.strip().str.lower().map(status_map)        *)
(*             .fillna(df["Status"]), on one cell.                         *)
normalize_status(c) == fillna(map_status(lower(strip(astype_str(c)))), c)

----------------------------------------------------------------------------
(* Reading the sheet *)

(* pd.read_csv: an empty field is read as the missing value. *)
read_csv_cell(text, blank) == IF text = blank THEN NaN ELSE {text}

(* A Timestamp field of the sheet: either text that denotes clock time     *)
(* `sec` of day `day`, or text that denotes no time at all.                *)
(* pd.to_datetime(errors="coerce"): the former parses, the latter is NaT.  *)
to_datetime(field) ==
    IF field.valid THEN {field.day * SecondsPerDay + field.sec} ELSE NaT

(* The date taken after a shift of the clock by twelve hours *)
dt_date_shifted(ts) ==
    IF isna(ts) THEN NaT ELSE {(Val(ts) + SecondsPerDay \div 2) \div SecondsPerDay}

(* Series.dt.date *)
dt_date(ts) == IF isna(ts) THEN NaT ELSE {Val(ts) \div SecondsPerDay}

read_csv(csv) ==
    DataFrame([i \in DOMAIN csv |->
        [Timestamp |-> csv[i].Timestamp,
         Product   |-> read_csv_cell(csv[i].Product, ""),
         Plate     |-> read_csv_cell(csv[i].Plate, ""),
         Status    |-> read_csv_cell(csv[i].Status, <<>>)]])

(* load_action without its dropna *)
dropna_nothing(df) == df

dropna_Timestamp(df) == SelectSeq(df, LAMBDA r : notna(r.Timestamp))

load_action(csv) ==
    LET df == read_csv(csv)
        parsed == DataFrame([i \in DOMAIN df |->
                     [Timestamp |-> to_datetime(df[i].Timestamp),
                      Date      |-> dt_date(to_datetime(df[i].Timestamp)),
                      Product   |-> df[i].Product,
                      Plate     |-> df[i].Plate,
                      Status    |-> normalize_status(df[i].Status)]])
    IN  dropna_Timestamp(parsed)

----------------------------------------------------------------------------
(* Data frame primitives *)

(* Python's order of the Product and Plate strings the inputs use. *)
Collation == <<"ABC-1", "Cement", "Sand", "X">>
str_code(s) == CHOOSE i \in DOMAIN Collation : Collation[i] = s

(* Order of cells under sort_values: missing values last. *)
num_lt(a, b) == notna(a) /\ (isna(b) \/ Val(a) < Val(b))
str_lt(a, b) == notna(a) /\ (isna(b) \/ str_code(Val(a)) < str_code(Val(b)))
label_lt(a, b) == notna(a) /\ (isna(b) \/ StrLess(Val(a), Val(b)))

cell_lt(column, a, b) ==
    IF column \in {"Date", "Timestamp"} THEN num_lt(a, b)
    ELSE IF column \in {"Product", "Plate"} THEN str_lt(a, b)
    ELSE label_lt(a, b)

(* Row a before row b in the order of the columns `by`. *)
row_lt(by, a, b) ==
    \E k \in DOMAIN by :
        /\ \A j \in 1..(k-1) : a[by[j]] = b[by[j]]
        /\ cell_lt(by[k], a[by[k]], b[by[k]])

same_key(by, a, b) == \A k \in DOMAIN by : a[by[k]] = b[by[k]]

notna_key(by, r) == \A k \in DOMAIN by : notna(r[by[k]])

(* The rows of df at the positions idx, in row order. *)
take(df, idx) ==
    DataFrame([p \in 1..Cardinality(idx) |->
        df[CHOOSE i \in idx : Cardinality({j \in idx : j < i}) = p - 1]])

(* DataFrame.sort_values(by) on several columns: a stable sort (lexsort). *)
sort_values(df, by) ==
    LET pos == DataFrame([i \in DOMAIN df |->
                   1 + Cardinality({j \in DOMAIN df :
                           \/ row_lt(by, df[j], df[i])
                           \/ same_key(by, df[j], df[i]) /\ j < i})])
    IN  DataFrame([p \in DOMAIN df |-> df[CHOOSE i \in DOMAIN df : pos[i] = p]])

(* groupby(by): rows with a missing group key are left out (dropna=True),  *)
(* groups come in key order, rows keep their order within a group.         *)
groupby(df, by) ==
    sort_values(SelectSeq(df, LAMBDA r : notna_key(by, r)), by)

(* .first() / .tail(1) of a grouped frame, given as positions.             *)
first_of_group(g, by) ==
    {i \in DOMAIN g : \A j \in 1..(i-1) : ~same_key(by, g[j], g[i])}
last_of_group(g, by) ==
    {i \in DOMAIN g : \A j \in (i+1)..Len(g) : ~same_key(by, g[j], g[i])}

----------------------------------------------------------------------------
(* 3) PIVOT: one row per (Date, Product, Plate) *)

(* The columns dropped from the sort of first_stage: Timestamp *)
first_stage_sort_without_Timestamp == <<"Date", "Product", "Plate", "Status">>

first_stage_sort == <<"Date", "Product", "Plate", "Status", "Timestamp">>
first_stage_groupby == <<"Date", "Product", "Plate", "Status">>
pivot_index == <<"Date", "Product", "Plate">>

(* action.sort_values([...]).groupby([...], as_index=False)["Timestamp"]   *)
(*       .first()                                                          *)
FirstStage(act) ==
    LET g == groupby(sort_values(act, first_stage_sort), first_stage_groupby)
        firsts == take(g, first_of_group(g, first_stage_groupby))
    IN  DataFrame([i \in DOMAIN firsts |->
            [Date      |-> firsts[i].Date,
             Product   |-> firsts[i].Product,
             Plate     |-> firsts[i].Plate,
             Status    |-> firsts[i].Status,
             Timestamp |-> firsts[i].Timestamp]])

(* The cell of the pivot at index row `key`, column `status`: the first    *)
(* Timestamp of the rows with that key and Status, NaT when there is none. *)
pivot_cell(fs, key, status) ==
    LET hits == {i \in DOMAIN fs : /\ same_key(pivot_index, fs[i], key)
                                   /\ fs[i].Status = {status}}
    IN  IF hits = {} THEN NaT ELSE fs[Min(hits)].Timestamp

(* first_stage.pivot_table(index=[Date, Product, Plate], columns="Status", *)
(*    values="Timestamp", aggfunc="first").reset_index(), the missing      *)
(* status columns added as NaT, and the six columns selected.              *)
Wide(fs) ==
    LET g == groupby(fs, pivot_index)
        index == take(g, first_of_group(g, pivot_index))
    IN  DataFrame([i \in DOMAIN index |->
            [Date             |-> index[i].Date,
             Product          |-> index[i].Product,
             Plate            |-> index[i].Plate,
             Waiting          |-> pivot_cell(fs, index[i], Waiting),
             Start_Loading    |-> pivot_cell(fs, index[i], Start_Loading),
             Complete_Loading |-> pivot_cell(fs, index[i], Complete_Loading)]])

----------------------------------------------------------------------------
(* 4) DURATIONS (min) *)

(* (end - start).dt.total_seconds() / 60: missing when an endpoint is. *)
minutes_between(start, end) ==
    IF isna(start) \/ isna(end) THEN NaN
    ELSE {[num |-> Val(end) - Val(start), den |-> SecondsPerMinute]}

(* The guard with <= in place of < *)
drop_nonpositive(c) == IF notna(c) /\ Val(c).num <= 0 THEN NaN ELSE c

(* wide.loc[wide[c] < 0, c] = np.nan *)
drop_negative(c) == IF notna(c) /\ Val(c).num < 0 THEN NaN ELSE c

(* The total time taken from Start Loading *)
Total_Time_min_from_start(w) ==
    IF isna(w.Start_Loading) \/ isna(w.Complete_Loading)
          \/ Val(w.Complete_Loading) < Val(w.Start_Loading)
    THEN NaN
    ELSE {[num |-> Val(w.Complete_Loading) - Val(w.Start_Loading), den |-> SecondsPerMinute]}

Waiting_Time_min(w) == drop_negative(minutes_between(w.Waiting, w.Start_Loading))
Loading_Time_min(w) == drop_negative(minutes_between(w.Start_Loading, w.Complete_Loading))
Total_Time_min(w) == drop_negative(minutes_between(w.Waiting, w.Complete_Loading))

WithDurations(wd) ==
    DataFrame([i \in DOMAIN wd |->
        [Date             |-> wd[i].Date,
         Product          |-> wd[i].Product,
         Plate            |-> wd[i].Plate,
         Waiting          |-> wd[i].Waiting,
         Start_Loading    |-> wd[i].Start_Loading,
         Complete_Loading |-> wd[i].Complete_Loading,
         Waiting_Time_min |-> Waiting_Time_min(wd[i]),
         Loading_Time_min |-> Loading_Time_min(wd[i]),
         Total_Time_min   |-> Total_Time_min(wd[i])]])

----------------------------------------------------------------------------
(* 5) FILTERS *)

(* sorted(wide[col].dropna().unique().tolist()), as a set *)
unique(df, column) == UNION {df[i][column] : i \in DOMAIN df}

(* st.selectbox("Date", options=dates): one of the options, None when      *)
(* there is none.                                                          *)
selectbox(options) == IF options = {} THEN {NaN} ELSE {{d} : d \in options}

(* st.multiselect("Product group(s)", products): any subset of them. *)
multiselect(options) == SUBSET options

(* wide[(wide["Date"]==sel_date) & (wide["Product"].isin(sel_products))] *)
DfDay(wd, date, products) ==
    SelectSeq(wd, LAMBDA r : /\ notna(r.Date) /\ r.Date = date
                             /\ notna(r.Product) /\ Val(r.Product) \in products)

----------------------------------------------------------------------------
(* 6) LIVE STATUS COUNTS (latest status per plate on the selected date) *)

(* The columns dropped from the sort of latest: Timestamp *)
latest_sort_without_Timestamp == <<"Plate">>

latest_sort == <<"Plate", "Timestamp">>
latest_groupby == <<"Plate">>

(* latest taken from the selected products only *)
Latest_of_selected_products(act, date) ==
    LET day == SelectSeq(act, LAMBDA r : /\ notna(r.Date) /\ r.Date = date
                                         /\ notna(r.Product)
                                         /\ Val(r.Product) \in sel_products)
        sorted == sort_values(day, latest_sort)
    IN  take(sorted, {i \in last_of_group(sorted, latest_groupby) :
                          notna_key(latest_groupby, sorted[i])})

(* action[action["Date"]==sel_date].sort_values(["Plate","Timestamp"])     *)
(*       .groupby("Plate").tail(1)                                         *)
Latest(act, date) ==
    LET day == SelectSeq(act, LAMBDA r : notna(r.Date) /\ r.Date = date)
        sorted == sort_values(day, latest_sort)
    IN  take(sorted, {i \in last_of_group(sorted, latest_groupby) :
                          notna_key(latest_groupby, sorted[i])})

(* latest["Status"].value_counts().reindex([...], fill_value=0) *)
StatusCounts(lt) ==
    [s \in Range(KnownStatuses) |->
        Cardinality({i \in DOMAIN lt : lt[i].Status = {s}})]

----------------------------------------------------------------------------
(* 7) DAILY / PRODUCT SUMMARY and 9) TREND *)

RoundScale == 10

frac_add(a, b) == [num |-> a.num * b.den + b.num * a.den, den |-> a.den * b.den]

RECURSIVE frac_sum(_)
frac_sum(fs) ==
    IF fs = <<>> THEN [num |-> 0, den |-> 1]
    ELSE frac_add(Head(fs), frac_sum(Tail(fs)))

(* The mean with a missing value counted as zero *)
mean_missing_as_zero(col) ==
    LET known == SelectSeq(col, notna)
        total == frac_sum([i \in DOMAIN known |-> Val(known[i])])
    IN  IF known = <<>> THEN NaN
        ELSE {[num |-> total.num, den |-> total.den * Len(col)]}

(* "mean": over the values that are not missing; missing when none is. *)
mean(col) ==
    LET known == SelectSeq(col, notna)
        total == frac_sum([i \in DOMAIN known |-> Val(known[i])])
    IN  IF known = <<>> THEN NaN
        ELSE {[num |-> total.num, den |-> total.den * Len(known)]}

(* "count": the number of values that are not missing. *)
count(col) == Len(SelectSeq(col, notna))

(* The integer nearest to n / d, a tie going to the even one. *)
round_half_even(n, d) ==
    LET q == n \div d
        r == n % d
    IN  IF 2 * r < d THEN q
        ELSE IF 2 * r > d THEN q + 1
        ELSE IF q % 2 = 0 THEN q ELSE q + 1

(* .round(1) on one float cell *)
round_1(c) ==
    IF isna(c) THEN NaN
    ELSE {[num |-> round_half_even(RoundScale * Val(c).num, Val(c).den),
           den |-> RoundScale]}

summary_groupby == <<"Date", "Product">>

(* The groups of df.groupby(["Date","Product"]): one representative row *)
(* per group, in key order. *)
groups_Date_Product(df) ==
    LET g == groupby(df, summary_groupby)
    IN  take(g, first_of_group(g, summary_groupby))

members(df, key) == SelectSeq(df, LAMBDA r : same_key(summary_groupby, r, key))

(* df_day.groupby(["Date","Product"], as_index=False).agg(...).round(1) *)
Summary(day) ==
    LET keys == groups_Date_Product(day)
    IN  DataFrame([k \in DOMAIN keys |->
            LET m == members(day, keys[k])
            IN  [Date            |-> keys[k].Date,
                 Product         |-> keys[k].Product,
                 Avg_Waiting_min |-> round_1(mean([i \in DOMAIN m |-> m[i].Waiting_Time_min])),
                 Avg_Loading_min |-> round_1(mean([i \in DOMAIN m |-> m[i].Loading_Time_min])),
                 Avg_Total_min   |-> round_1(mean([i \in DOMAIN m |-> m[i].Total_Time_min])),
                 Truck_Count     |-> count([i \in DOMAIN m |-> m[i].Plate])]])

(* wide.groupby(["Date","Product"], as_index=False)                        *)
(*     .agg(Avg_Total_min=("Total_Time_min","mean"))                       *)
(*     .dropna(subset=["Avg_Total_min"])                                   *)
Trend(wd) ==
    LET keys == groups_Date_Product(wd)
        agg == DataFrame([k \in DOMAIN keys |->
                  LET m == members(wd, keys[k])
                  IN  [Date          |-> keys[k].Date,
                       Product       |-> keys[k].Product,
                       Avg_Total_min |-> mean([i \in DOMAIN m |-> m[i].Total_Time_min])]])
    IN  SelectSeq(agg, LAMBDA r : notna(r.Avg_Total_min))

----------------------------------------------------------------------------
(* The sheets explored *)

stamp(d, s) == [valid |-> TRUE, day |-> d, sec |-> s]
stamp_bad == [valid |-> FALSE, day |-> 0, sec |-> 0]

pad(n) == [i \in 1..n |-> " "]

l_wait == pad(1) \o s_wait
l_start == Start_Loading
l_complete == upper(s_completed)
l_other == <<"U","n","l","o","a","d","i","n","g">>
l_blank == <<>>

Rows(T, P, V, S) ==
    {[Timestamp |-> t, Product |-> p, Plate |-> v, Status |-> s] :
        t \in T, p \in P, v \in V, s \in S}

Sheets(rows, n) == UNION {[1..k -> rows] : k \in 0..n}

(* Sections 2-4: one product; one truck with the three stages at three     *)
(* clock times of day 0 and at midnight of day 1, a second truck that      *)
(* only waits.                                                             *)
IntervalRows ==
    Rows({stamp(0, 0), stamp(0, 100), stamp(0, 86399), stamp(1, 0)},
         {"Cement"}, {"ABC-1"}, {l_wait, l_start, l_complete})
    \cup Rows({stamp(0, 0), stamp(0, 100)}, {"Cement"}, {"X"}, {l_wait})

(* Sections 2-6: two products, two trucks, two days, known and unknown     *)
(* labels.                                                                 *)
LiveRows ==
    Rows({stamp(0, 0), stamp(0, 100), stamp(1, 0)},
         {"Cement", "Sand"}, {"ABC-1", "X"}, {l_wait, l_start, l_other})

(* The whole script: two trucks with one product, a third with another,    *)
(* waiting and start.                                                      *)
SummaryRows ==
    Rows({stamp(0, 0), stamp(0, 100)},
         {"Cement"}, {"ABC-1", "X"}, {l_wait, l_start})
    \cup Rows({stamp(0, 0), stamp(1, 0)}, {"Sand"}, {"X"}, {l_wait, l_start})

(* The whole script on sheets with blank and unparseable fields.           *)
DirtyRows ==
    Rows({stamp_bad, stamp(0, 0), stamp(0, 100)},
         {"Cement"}, {"ABC-1"}, {l_wait, l_start, l_blank})
    \cup Rows({stamp(0, 0)}, {"Cement"}, {""}, {l_wait})
    \cup Rows({stamp(0, 100)}, {""}, {"ABC-1"}, {l_start})

(* Status cells for the normalization alone: every synonym and some other  *)
(* texts, in lower, upper, capitalized and title case, with up to MaxPad   *)
(* spaces before and tabs after; and the missing value.                    *)
capitalize(s) == [i \in DOMAIN s |-> IF i = 1 THEN upper_char(s[i]) ELSE s[i]]
title(s) ==
    [i \in DOMAIN s |->
        IF i = 1 \/ (i > 1 /\ s[i-1] = " ") THEN upper_char(s[i]) ELSE s[i]]

tabs(n) == [i \in 1..n |-> "\t"]

Words ==
    DOMAIN status_map \cup
    {<<"u","n","l","o","a","d","i","n","g">>,
     <<"w","a","i","t","s">>,
     <<"s","t","a","r","t"," "," ","l","o","a","d","i","n","g">>}

LabelCells ==
    {NaN} \cup
    {{pad(l) \o c \o tabs(r)} :
        l \in 0..MaxPad, r \in 0..MaxPad,
        c \in UNION {{w, upper(w), capitalize(w), title(w)} : w \in Words}}

----------------------------------------------------------------------------
(* The sections of the script *)

Fresh ==
    /\ action = <<>>
    /\ first_stage = <<>>
    /\ wide = <<>>
    /\ sel_date = NaN
    /\ sel_products = {}
    /\ df_day = <<>>
    /\ latest = <<>>
    /\ status_counts = [s \in Range(KnownStatuses) |-> 0]
    /\ summary = <<>>
    /\ trend = <<>>
    /\ once = NaN
    /\ twice = NaN

LoadAction ==
    /\ pc = "load"
    /\ action' = load_action(sheet)
    /\ pc' = "pivot"
    /\ UNCHANGED <<norm, sheet, first_stage, wide, sel_date, sel_products, df_day,
                   latest, status_counts, summary, trend>>

Pivot ==
    /\ pc = "pivot"
    /\ first_stage' = FirstStage(action)
    /\ wide' = Wide(first_stage')
    /\ pc' = "durations"
    /\ UNCHANGED <<norm, sheet, action, sel_date, sel_products, df_day,
                   latest, status_counts, summary, trend>>

Durations ==
    /\ pc = "durations"
    /\ wide' = WithDurations(wide)
    /\ pc' = "filters"
    /\ UNCHANGED <<norm, sheet, action, first_stage, sel_date, sel_products, df_day,
                   latest, status_counts, summary, trend>>

Filters ==
    /\ pc = "filters"
    /\ \E d \in selectbox(unique(wide, "Date")) :
       \E ps \in multiselect(unique(wide, "Product")) :
          /\ sel_date' = d
          /\ sel_products' = ps
          /\ df_day' = DfDay(wide, d, ps)
    /\ pc' = "live"
    /\ UNCHANGED <<norm, sheet, action, first_stage, wide,
                   latest, status_counts, summary, trend>>

LiveStatusCounts ==
    /\ pc = "live"
    /\ latest' = Latest(action, sel_date)
    /\ status_counts' = StatusCounts(Latest(action, sel_date))
    /\ pc' = "summary"
    /\ UNCHANGED <<norm, sheet, action, first_stage, wide, sel_date, sel_products,
                   df_day, summary, trend>>

DailySummary ==
    /\ pc = "summary"
    /\ summary' = Summary(df_day)
    /\ pc' = "trend"
    /\ UNCHANGED <<norm, sheet, action, first_stage, wide, sel_date, sel_products,
                   df_day, latest, status_counts, trend>>

TrendChart ==
    /\ pc = "trend"
    /\ trend' = Trend(wide)
    /\ pc' = "done"
    /\ UNCHANGED <<norm, sheet, action, first_stage, wide, sel_date, sel_products,
                   df_day, latest, status_counts, summary>>

(* A rerun of the script (auto-refresh, the refresh button, a widget): it  *)
(* starts again from the sheet.                                            *)
Rerun ==
    /\ pc = "done"
    /\ pc' = "load"
    /\ action' = <<>>
    /\ first_stage' = <<>>
    /\ wide' = <<>>
    /\ sel_date' = NaN
    /\ sel_products' = {}
    /\ df_day' = <<>>
    /\ latest' = <<>>
    /\ status_counts' = [s \in Range(KnownStatuses) |-> 0]
    /\ summary' = <<>>
    /\ trend' = <<>>
    /\ UNCHANGED <<sheet, norm>>

(* The Status normalization of load_action applied to one cell, and to    *)
(* its own result.                                                         *)
NormalizeOnce ==
    /\ pc = "normalize"
    /\ once' = normalize_status(label)
    /\ pc' = "renormalize"
    /\ UNCHANGED <<sheet, frames, label, twice>>

NormalizeTwice ==
    /\ pc = "renormalize"
    /\ twice' = normalize_status(once)
    /\ pc' = "normalized"
    /\ UNCHANGED <<sheet, frames, label, once>>

Next ==
    \/ LoadAction
    \/ Pivot
    \/ Durations
    \/ Filters
    \/ LiveStatusCounts
    \/ DailySummary
    \/ TrendChart
    \/ Rerun

Init ==
    /\ sheet \in Sheets(SummaryRows, MaxEvents)
    /\ pc = "load"
    /\ label = NaN
    /\ Fresh

Spec == Init /\ [][Next]_vars

InitDirty ==
    /\ sheet \in Sheets(DirtyRows, MaxEvents)
    /\ pc = "load"
    /\ label = NaN
    /\ Fresh

SpecDirty == InitDirty /\ [][Next]_vars

(* The script up to the durations. *)
InitIntervals ==
    /\ sheet \in Sheets(IntervalRows, MaxEvents)
    /\ pc = "load"
    /\ label = NaN
    /\ Fresh

NextIntervals ==
    \/ LoadAction
    \/ Pivot
    \/ Durations

SpecIntervals == InitIntervals /\ [][NextIntervals]_vars

(* The script up to the live status counts. *)
InitLive ==
    /\ sheet \in Sheets(LiveRows, MaxLiveEvents)
    /\ pc = "load"
    /\ label = NaN
    /\ Fresh

NextLive ==
    \/ LoadAction
    \/ Pivot
    \/ Durations
    \/ Filters
    \/ LiveStatusCounts

SpecLive == InitLive /\ [][NextLive]_vars

(* The Status normalization on its own. *)
InitNormalize ==
    /\ Fresh
    /\ sheet = <<>>
    /\ pc = "normalize"
    /\ label \in LabelCells

NextNormalize ==
    \/ NormalizeOnce
    \/ NormalizeTwice

SpecNormalize == InitNormalize /\ [][NextNormalize]_vars

----------------------------------------------------------------------------
(* Properties *)

Loaded     == pc \in {"pivot", "durations", "filters", "live", "summary", "trend", "done"}
Pivoted    == pc \in {"durations", "filters", "live", "summary", "trend", "done"}
Timed      == pc \in {"filters", "live", "summary", "trend", "done"}
Counted    == pc \in {"summary", "trend", "done"}
Summarized == pc \in {"trend", "done"}

(* The (date, product, vehicle-id) key of an event or of an interval record *)
KeyOf(r) == <<r.Date, r.Product, r.Plate>>

(* The normalized events, by position, that carry a whole key *)
Keyed == {i \in DOMAIN action : notna(action[i].Product) /\ notna(action[i].Plate)}
EventKeys == {KeyOf(action[i]) : i \in Keyed}

(* C1: after the pivot, every (date, product, vehicle-id) key that occurs  *)
(* among the normalized events has exactly one record in wide, and every   *)
(* record's key occurs among the events.                                   *)
C1_OneRecordPerKey ==
    Pivoted =>
        /\ \A k \in EventKeys :
              Cardinality({i \in DOMAIN wide : KeyOf(wide[i]) = k}) = 1
        /\ \A i \in DOMAIN wide : KeyOf(wide[i]) \in EventKeys

(* The timestamps of the events with key k and status st *)
TimesOf(k, st) ==
    {Val(action[i].Timestamp) :
        i \in {j \in Keyed : KeyOf(action[j]) = k /\ action[j].Status = {st}}}

EarliestOrAbsent(cell, k, st) ==
    IF TimesOf(k, st) = {} THEN isna(cell) ELSE cell = {Min(TimesOf(k, st))}

(* The sheet with rows k and k+1 exchanged.  Every permutation of a sheet  *)
(* is a chain of such exchanges, each one applied to a sheet of the same   *)
(* rows.                                                                   *)
Exchanged(csv, k) ==
    DataFrame([i \in DOMAIN csv |->
        IF i = k THEN csv[k + 1] ELSE IF i = k + 1 THEN csv[k] ELSE csv[i]])

(* C2: in every record each of Waiting, Start Loading, Complete Loading is *)
(* the minimum timestamp of the key's events with that status, absent      *)
(* exactly when there is none; and the pivot of the sheet is the pivot of   *)
(* the sheet with any two neighbouring rows exchanged, hence of every      *)
(* permutation of the sheet.                                               *)
C2_EarliestPerStatus ==
    /\ Pivoted =>
          \A i \in DOMAIN wide :
              /\ EarliestOrAbsent(wide[i].Waiting, KeyOf(wide[i]), Waiting)
              /\ EarliestOrAbsent(wide[i].Start_Loading, KeyOf(wide[i]), Start_Loading)
              /\ EarliestOrAbsent(wide[i].Complete_Loading, KeyOf(wide[i]), Complete_Loading)
    /\ pc = "durations" =>
          \A k \in 1..(Len(sheet) - 1) :
              \A act \in {load_action(Exchanged(sheet, k))} :
                  \A fs \in {FirstStage(act)} : Wide(fs) = wide

(* C2 witness: a key has two Waiting events and the later one comes first  *)
(* in the sheet.                                                           *)
C2_Witness ==
    /\ pc = "durations"
    /\ \E i, j \in Keyed :
          /\ i < j
          /\ KeyOf(action[i]) = KeyOf(action[j])
          /\ action[i].Status = {Waiting}
          /\ action[j].Status = {Waiting}
          /\ Val(action[i].Timestamp) > Val(action[j].Timestamp)

(* A duration d, in minutes, of the interval from start to end (seconds) *)
IsMinutes(d, start, end) ==
    Val(d).num * SecondsPerMinute = (Val(end) - Val(start)) * Val(d).den

DurationOk(d, start, end) ==
    /\ notna(d) => Val(d).num >= 0
    /\ IF isna(start) \/ isna(end) THEN isna(d)
       ELSE IF Val(end) < Val(start) THEN isna(d)
       ELSE notna(d) /\ IsMinutes(d, start, end)

(* C3: every duration is absent or at least zero: absent when an endpoint  *)
(* is absent or end - start is negative, else end - start in minutes.      *)
C3_DurationsNeverNegative ==
    Timed =>
        \A i \in DOMAIN wide :
            /\ DurationOk(wide[i].Waiting_Time_min, wide[i].Waiting, wide[i].Start_Loading)
            /\ DurationOk(wide[i].Loading_Time_min, wide[i].Start_Loading, wide[i].Complete_Loading)
            /\ DurationOk(wide[i].Total_Time_min, wide[i].Waiting, wide[i].Complete_Loading)

(* C3 witness: a record with a zero waiting time kept and a loading time   *)
(* dropped for being negative.                                             *)
C3_Witness ==
    /\ Timed
    /\ \E i \in DOMAIN wide :
          /\ notna(wide[i].Waiting_Time_min)
          /\ Val(wide[i].Waiting_Time_min).num = 0
          /\ notna(wide[i].Start_Loading)
          /\ notna(wide[i].Complete_Loading)
          /\ Val(wide[i].Complete_Loading) < Val(wide[i].Start_Loading)
          /\ isna(wide[i].Loading_Time_min)

(* Complete Loading before Start Loading, Waiting before both *)
CompleteBeforeStart(w) ==
    /\ notna(w.Waiting) /\ notna(w.Start_Loading) /\ notna(w.Complete_Loading)
    /\ Val(w.Complete_Loading) < Val(w.Start_Loading)
    /\ Val(w.Waiting) < Val(w.Complete_Loading)

(* C4, as claimed: with Complete Loading before Start Loading and Waiting  *)
(* before both, loading and total time are both absent and the waiting     *)
(* time is start - waiting.                                                *)
C4_LoadingAndTotalAbsent ==
    Timed =>
        \A i \in DOMAIN wide :
            CompleteBeforeStart(wide[i]) =>
                /\ isna(wide[i].Loading_Time_min)
                /\ isna(wide[i].Total_Time_min)
                /\ notna(wide[i].Waiting_Time_min)
                /\ IsMinutes(wide[i].Waiting_Time_min, wide[i].Waiting, wide[i].Start_Loading)

(* C4, amended: with Complete Loading before Start Loading and Waiting     *)
(* before both, the loading time is absent, the total time is              *)
(* complete - waiting and the waiting time is start - waiting.             *)
C4_OnlyLoadingAbsent ==
    Timed =>
        \A i \in DOMAIN wide :
            CompleteBeforeStart(wide[i]) =>
                /\ isna(wide[i].Loading_Time_min)
                /\ notna(wide[i].Total_Time_min)
                /\ IsMinutes(wide[i].Total_Time_min, wide[i].Waiting, wide[i].Complete_Loading)
                /\ notna(wide[i].Waiting_Time_min)
                /\ IsMinutes(wide[i].Waiting_Time_min, wide[i].Waiting, wide[i].Start_Loading)

(* C4 witness: such a record, with its durations computed *)
C4_Witness ==
    Timed /\ \E i \in DOMAIN wide : CompleteBeforeStart(wide[i])

OnKeyDate(w, ts) == isna(ts) \/ Val(ts) \div SecondsPerDay = Val(w.Date)

UnderOneDay(d) == isna(d) \/ Val(d).num < 1440 * Val(d).den

(* C10: every present timestamp of a record falls on the record's date,    *)
(* and every known duration is less than 1440 minutes.                     *)
C10_SameCalendarDate ==
    Timed =>
        \A i \in DOMAIN wide :
            /\ OnKeyDate(wide[i], wide[i].Waiting)
            /\ OnKeyDate(wide[i], wide[i].Start_Loading)
            /\ OnKeyDate(wide[i], wide[i].Complete_Loading)
            /\ UnderOneDay(wide[i].Waiting_Time_min)
            /\ UnderOneDay(wide[i].Loading_Time_min)
            /\ UnderOneDay(wide[i].Total_Time_min)

(* C10 witness: one truck and product with a record on each of two dates:  *)
(* a known waiting time on the first, ended one second before midnight,    *)
(* and a Start Loading at midnight on the second.                          *)
C10_Witness ==
    /\ Timed
    /\ \E i, j \in DOMAIN wide :
          /\ wide[i].Product = wide[j].Product
          /\ wide[i].Plate = wide[j].Plate
          /\ Val(wide[j].Date) = Val(wide[i].Date) + 1
          /\ notna(wide[i].Waiting_Time_min)
          /\ notna(wide[j].Start_Loading)
          /\ Val(wide[j].Start_Loading) = Val(wide[i].Start_Loading) + 1

(* The events of the selected date, by position; its vehicles; and the     *)
(* position of a vehicle's latest event: of those with the maximum         *)
(* timestamp, the last in input order.                                     *)
OnSelectedDate == {i \in DOMAIN action : notna(sel_date) /\ action[i].Date = sel_date}
VehiclesOnDate == {Val(action[i].Plate) : i \in {j \in OnSelectedDate : notna(action[j].Plate)}}
EventsOf(v) == {i \in OnSelectedDate : action[i].Plate = {v}}
LatestEvent(v) ==
    LET tmax == Max({Val(action[i].Timestamp) : i \in EventsOf(v)})
    IN  Max({i \in EventsOf(v) : Val(action[i].Timestamp) = tmax})

(* C5: latest has exactly one row per vehicle with an event on the         *)
(* selected date, and it is the vehicle's event with the maximum           *)
(* timestamp, the last in input order among those that share it.           *)
C5_LatestPerVehicle ==
    Counted =>
        /\ \A v \in VehiclesOnDate :
              Cardinality({i \in DOMAIN latest : latest[i].Plate = {v}}) = 1
        /\ \A i \in DOMAIN latest :
              /\ notna(latest[i].Plate)
              /\ Val(latest[i].Plate) \in VehiclesOnDate
              /\ latest[i] = action[LatestEvent(Val(latest[i].Plate))]

(* C5 witness: two events of one vehicle share the maximum timestamp of    *)
(* the selected date and differ in status.                                 *)
C5_Witness ==
    /\ Counted
    /\ \E i, j \in OnSelectedDate :
          /\ i < j
          /\ notna(action[i].Plate)
          /\ action[i].Plate = action[j].Plate
          /\ action[i].Timestamp = action[j].Timestamp
          /\ action[i].Status # action[j].Status
          /\ j = LatestEvent(Val(action[j].Plate))

LatestStatusIs(st) == {v \in VehiclesOnDate : action[LatestEvent(v)].Status = {st}}

(* C6: the live counts are the three slots Waiting, Start Loading and      *)
(* Complete Loading, each the number of vehicles of the selected date      *)
(* whose latest status it is; they sum to at most the number of vehicles,  *)
(* whatever the selected products.                                         *)
C6_LiveCounts ==
    Counted =>
        /\ DOMAIN status_counts = {Waiting, Start_Loading, Complete_Loading}
        /\ \A st \in DOMAIN status_counts :
              status_counts[st] = Cardinality(LatestStatusIs(st))
        /\ status_counts[Waiting] + status_counts[Start_Loading]
             + status_counts[Complete_Loading] <= Cardinality(VehiclesOnDate)

(* C6 witness: no product selected, one vehicle counted as Waiting and one *)
(* whose latest status is no known status.                                 *)
C6_Witness ==
    /\ Counted
    /\ sel_products = {}
    /\ status_counts[Waiting] = 1
    /\ \E v \in VehiclesOnDate :
          /\ notna(action[LatestEvent(v)].Status)
          /\ \A st \in DOMAIN status_counts : v \notin LatestStatusIs(st)

(* The records of the selected date and products, by position; the         *)
(* (date, product) groups; the records of a group where a duration is      *)
(* known; and the sum of that duration, in seconds.                        *)
Selected ==
    {i \in DOMAIN wide : /\ notna(sel_date) /\ wide[i].Date = sel_date
                         /\ Val(wide[i].Product) \in sel_products}
GroupOf(r) == <<r.Date, r.Product>>
Groups == {GroupOf(wide[i]) : i \in Selected}
InGroup(g) == {i \in Selected : GroupOf(wide[i]) = g}
KnownIn(g, f) == {i \in InGroup(g) : notna(wide[i][f])}
Seconds(d) == (Val(d).num * SecondsPerMinute) \div Val(d).den

RECURSIVE SumSeconds(_, _)
SumSeconds(S, f) ==
    IF S = {} THEN 0
    ELSE LET i == CHOOSE x \in S : TRUE
         IN  Seconds(wide[i][f]) + SumSeconds(S \ {i}, f)

(* avg is the mean, in minutes, of duration f over the records S *)
IsMean(avg, S, f) ==
    IF S = {} THEN isna(avg)
    ELSE /\ notna(avg)
         /\ Val(avg).num * SecondsPerMinute * Cardinality(S)
              = SumSeconds(S, f) * Val(avg).den

(* avg is that mean rounded to one decimal: the nearest tenth of a minute, *)
(* the even one of two equally near.                                       *)
IsMeanRounded(avg, S, f) ==
    IF S = {} THEN isna(avg)
    ELSE /\ notna(avg)
         /\ (10 * Val(avg).num) % Val(avg).den = 0
         /\ LET tenths == (10 * Val(avg).num) \div Val(avg).den
                d == SecondsPerMinute * Cardinality(S)
                e == 2 * (10 * SumSeconds(S, f) - tenths * d)
            IN  \/ -d < e /\ e < d
                \/ (e = d \/ e = -d) /\ tenths % 2 = 0

AvgIs(rounded, avg, S, f) ==
    IF rounded THEN IsMeanRounded(avg, S, f) ELSE IsMean(avg, S, f)

SummaryRowsAre(rounded) ==
    /\ \A g \in Groups :
          Cardinality({k \in DOMAIN summary : GroupOf(summary[k]) = g}) = 1
    /\ \A k \in DOMAIN summary :
          LET g == GroupOf(summary[k])
          IN  /\ g \in Groups
              /\ AvgIs(rounded, summary[k].Avg_Waiting_min, KnownIn(g, "Waiting_Time_min"), "Waiting_Time_min")
              /\ AvgIs(rounded, summary[k].Avg_Loading_min, KnownIn(g, "Loading_Time_min"), "Loading_Time_min")
              /\ AvgIs(rounded, summary[k].Avg_Total_min, KnownIn(g, "Total_Time_min"), "Total_Time_min")
              /\ summary[k].Truck_Count = Cardinality(InGroup(g))

Parseable(csv) == SelectSeq(csv, LAMBDA r : r.Timestamp.valid)

(* C8: the normalized events are those of the sheet without its            *)
(* unparseable rows, and so is every output of the run.                    *)
C8_UnparseableDropped ==
    \A act \in {load_action(Parseable(sheet))} :
        /\ Loaded =>
              /\ Len(action) = Len(Parseable(sheet))
              /\ \A i \in DOMAIN action : notna(action[i].Timestamp) /\ notna(action[i].Date)
              /\ action = act
        /\ pc = "done" =>
              \A fs \in {FirstStage(act)} :
              \A wd \in {WithDurations(Wide(fs))} :
              \A day \in {DfDay(wd, sel_date, sel_products)} :
              \A lt \in {Latest(act, sel_date)} :
                  /\ wide = wd
                  /\ df_day = day
                  /\ latest = lt
                  /\ status_counts = StatusCounts(lt)
                  /\ summary = Summary(day)
                  /\ trend = Trend(wd)

(* C8 witness: a finished run on a sheet with an unparseable row before    *)
(* two rows that give a waiting time.                                      *)
C8_Witness ==
    /\ pc = "done"
    /\ Len(sheet) > 0
    /\ ~sheet[1].Timestamp.valid
    /\ \E k \in DOMAIN summary : notna(summary[k].Avg_Waiting_min)
    /\ status_counts[Start_Loading] = 1

(* text is the synonym w in some letter case, between whitespace *)
Matches(text, w) ==
    \E i \in 1..(Len(text) + 1) :
        /\ i + Len(w) - 1 <= Len(text)
        /\ \A k \in 1..(i-1) : text[k] \in WHITESPACE
        /\ \A k \in (i + Len(w))..Len(text) : text[k] \in WHITESPACE
        /\ \A k \in 1..Len(w) : text[i + k - 1] \in {w[k], upper_char(w[k])}

(* C9: a label that is a synonym, in any letter case and between any       *)
(* whitespace, normalizes to the synonym's canonical value and that value  *)
(* normalizes to itself; any other label normalizes to itself.             *)
C9_NormalizeIdempotent ==
    pc = "normalized" =>
        /\ \A w \in DOMAIN status_map :
              (notna(label) /\ Matches(Val(label), w)) =>
                  once = {status_map[w]} /\ twice = once
        /\ (isna(label) \/ \A w \in DOMAIN status_map : ~Matches(Val(label), w)) =>
              once = label /\ twice = label

(* C9 witness: a synonym in upper case between whitespace, normalized      *)
(* twice.                                                                  *)
C9_Witness ==
    /\ pc = "normalized"
    /\ label = {pad(1) \o upper(s_loading_start) \o tabs(1)}
    /\ once = {Start_Loading}
    /\ twice = {Start_Loading}

====
